---- MODULE Spec2Model ----
(***************************************************************************)
(* Model of app2.py: one run of the T20 team-strength dashboard script.   *)
(*                                                                         *)
(* The script is a straight-line pipeline: load the table, read the team   *)
(* selection, filter, derive the per-row metrics, aggregate per team,      *)
(* render the tabs, simulate a match, print the verdict.  An uncaught      *)
(* Python exception ends the run where it is raised.                       *)
(*                                                                         *)
(* Numbers are pandas/numpy float64 values.  They are modelled as exact    *)
(* fractions <<n, d>> in lowest terms with d > 0, extended with the two    *)
(* non-finite values the script can produce: Inf = <<1, 0>> (x / 0, x > 0) *)
(* and NaN = <<0, 0>> (0 * inf, inf / inf, 0 / 0, or a mean of nothing).   *)
(* Rounding error of float64 is not modelled.                              *)
(***************************************************************************)
EXTENDS Integers, Sequences, FiniteSets, TLC

VARIABLES df, teams, filtered_df, team_strength, best_team, ar_df,
          team1, team2, overs_left, s1, s2, adj1, adj2, prob1, prob2,
          verdict, warnings, pc, error

vars == <<df, teams, filtered_df, team_strength, best_team, ar_df,
          team1, team2, overs_left, s1, s2, adj1, adj2, prob1, prob2,
          verdict, warnings, pc, error>>

-----------------------------------------------------------------------------
(* Bounds of the model *)

MaxRows == 2

-----------------------------------------------------------------------------
(* float64 arithmetic on the values the script computes (all >= 0, or      *)
(* Inf, or NaN; a difference 1 - p may have any sign)                      *)

NaN == <<0, 0>>
Inf == <<1, 0>>

Abs(i) == IF i < 0 THEN -i ELSE i

RECURSIVE GCD(_, _)
GCD(a, b) == IF b = 0 THEN a ELSE GCD(b, a % b)

Norm(n, d) ==
    IF d = 0
    THEN (IF n = 0 THEN NaN ELSE Inf)
    ELSE LET g == GCD(Abs(n), d) IN <<n \div g, d \div g>>

IsNaN(x) == x = NaN
IsInf(x) == x = Inf
IsFinite(x) == x[2] # 0

Mul(x, y) == Norm(x[1] * y[1], x[2] * y[2])

Add(x, y) ==
    IF IsNaN(x) \/ IsNaN(y) THEN NaN
    ELSE IF IsInf(x) \/ IsInf(y) THEN Inf
    ELSE Norm(x[1] * y[2] + y[1] * x[2], x[2] * y[2])

Sub(x, y) ==
    IF IsNaN(x) \/ IsNaN(y) THEN NaN
    ELSE IF IsInf(x) /\ IsInf(y) THEN NaN
    ELSE IF IsInf(x) THEN Inf
    ELSE Norm(x[1] * y[2] - y[1] * x[2], x[2] * y[2])

Div(x, y) == Norm(x[1] * y[2], x[2] * y[1])

\* x >= y as float64 compares: false when either side is NaN
Geq(x, y) == ~IsNaN(x) /\ ~IsNaN(y) /\ x[1] * y[2] >= y[1] * x[2]

Num(i) == <<i, 1>>
Zero == Num(0)
One == Num(1)

-----------------------------------------------------------------------------
(* The table read from "Team Comparison.csv"                               *)

None == "None"

\* a row variable before its assignment
NoRow == [country |-> None]

\* distinct values of the country column, in the order groupby sorts keys
Countries == <<"AUS", "IND">>

CountrySet == {Countries[i] : i \in DOMAIN Countries}

\* role cells as character sequences; the empty sequence is a missing cell
AllRounderRole == <<"A", "l", "l", "-", "R", "o", "u", "n", "d", "e", "r">>
BatsmanRole == <<"B", "a", "t", "s", "m", "a", "n">>
MissingRole == << >>

Roles == {AllRounderRole, BatsmanRole, MissingRole}

\* the numeric cells of a row
Stats ==
    { [batting_sr |-> 2, batting_average |-> 1, wickets |-> 1, economy |-> 2],
      [batting_sr |-> 1, batting_average |-> 1, wickets |-> 1, economy |-> 0],
      [batting_sr |-> 0, batting_average |-> 1, wickets |-> 2, economy |-> 1],
      [batting_sr |-> 0, batting_average |-> 3, wickets |-> 0, economy |-> 0] }

PlayerRows ==
    { [country |-> c, role |-> r, batting_sr |-> st.batting_sr,
       batting_average |-> st.batting_average, wickets |-> st.wickets,
       economy |-> st.economy] : c \in CountrySet, r \in Roles, st \in Stats }

Tables == UNION { [1..n -> PlayerRows] : n \in 0..MaxRows }

-----------------------------------------------------------------------------
(* Sequence helpers                                                        *)

Range(s) == {s[i] : i \in DOMAIN s}

\* Series.unique(): distinct values in order of first appearance
RECURSIVE Unique(_)
Unique(s) ==
    IF s = << >> THEN << >>
    ELSE LET init == Unique(SubSeq(s, 1, Len(s) - 1))
             last == s[Len(s)]
         IN IF last \in Range(init) THEN init ELSE Append(init, last)

\* sub-sequences of s, keeping the order of s
RECURSIVE SubLists(_)
SubLists(s) ==
    IF s = << >> THEN {<< >>}
    ELSE LET rest == SubLists(Tail(s))
         IN rest \cup {<<Head(s)>> \o t : t \in rest}

-----------------------------------------------------------------------------
(* Metric engine: the derived columns of a row                             *)

LowerChar(c) ==
    CASE c = "A" -> "a"
      [] c = "B" -> "b"
      [] c = "R" -> "r"
      [] OTHER -> c

\* Series.str.lower()
Lower(role) == [i \in DOMAIN role |-> LowerChar(role[i])]

\* Series.str.contains(pat) for a literal pattern
Contains(s, pat) ==
    \E i \in 0..(Len(s) - Len(pat)) : SubSeq(s, i + 1, i + Len(pat)) = pat

\* role.str.lower().str.contains("all", na=False)
IsAllRounder(row) ==
    IF row.role = MissingRole THEN FALSE
    ELSE Contains(Lower(row.role), <<"a", "l", "l">>)

BattingImpact(row) == Mul(Num(row.batting_sr), Num(row.batting_average))

BowlingImpact(row) == Mul(Num(row.wickets), Div(One, Num(row.economy)))

AllrounderIndex(row) ==
    Add(Mul(<<3, 5>>, BattingImpact(row)), Mul(<<2, 5>>, BowlingImpact(row)))

FeatureEngineering(row) ==
    [country |-> row.country, role |-> row.role,
     batting_sr |-> row.batting_sr, batting_average |-> row.batting_average,
     wickets |-> row.wickets, economy |-> row.economy,
     batting_impact |-> BattingImpact(row),
     bowling_impact |-> BowlingImpact(row),
     allrounder_index |-> AllrounderIndex(row)]

-----------------------------------------------------------------------------
(* Aggregation engine                                                      *)

\* keys of groupby("country"): the countries present, sorted
GroupKeys(rows) ==
    SelectSeq(Countries, LAMBDA c : \E i \in DOMAIN rows : rows[i].country = c)

RECURSIVE SumSeq(_)
SumSeq(xs) == IF xs = << >> THEN Zero ELSE Add(Head(xs), SumSeq(Tail(xs)))

\* Series.mean(): NaN cells are skipped; the mean of no cell is NaN
Mean(xs) ==
    LET present == SelectSeq(xs, LAMBDA x : ~IsNaN(x))
    IN IF present = << >> THEN NaN
       ELSE Div(SumSeq(present), Num(Len(present)))

Column(rows, metric) == [i \in DOMAIN rows |-> rows[i][metric]]

\* groupby("country")[metric].mean() at one key
GroupMean(rows, c, metric) ==
    Mean(Column(SelectSeq(rows, LAMBDA r : r.country = c), metric))

\* the merge without fillna(0)
FillNaOmitted(x) == x

\* DataFrame.fillna(0), cell by cell
FillNa(x) == IF IsNaN(x) THEN Zero ELSE x

\* the all-rounder mean merged onto a team (how="left"): NaN when the team
\* has no row in the all-rounder subset
MergedAllrounderIndex(rows, c) ==
    LET ar == SelectSeq(rows, IsAllRounder)
    IN IF \E i \in DOMAIN ar : ar[i].country = c
       THEN GroupMean(ar, c, "allrounder_index")
       ELSE NaN

PowerIndex(bat, bowl, ar) ==
    Add(Add(Mul(<<1, 2>>, bat), Mul(<<3, 10>>, bowl)), Mul(<<1, 5>>, ar))

TeamAggregate(rows, c) ==
    LET bat == FillNa(GroupMean(rows, c, "batting_impact"))
        bowl == FillNa(GroupMean(rows, c, "bowling_impact"))
        ar == FillNa(MergedAllrounderIndex(rows, c))
    IN [country |-> c, batting_impact |-> bat, bowling_impact |-> bowl,
        allrounder_index |-> ar, power_index |-> PowerIndex(bat, bowl, ar)]

TeamStrength(rows) ==
    LET keys == GroupKeys(rows)
    IN [i \in DOMAIN keys |-> TeamAggregate(rows, keys[i])]

\* the base table of lines 145-149, before the merge
BaseStrength(rows) ==
    LET keys == GroupKeys(rows)
    IN [i \in DOMAIN keys |->
          [country |-> keys[i],
           batting_impact |-> GroupMean(rows, keys[i], "batting_impact"),
           bowling_impact |-> GroupMean(rows, keys[i], "bowling_impact")]]

\* read_csv gives the role column a text dtype unless every cell of a
\* non-empty table is missing; .str is only defined on a text column
RoleIsText(table) ==
    table = << >> \/ \E i \in DOMAIN table : table[i].role # MissingRole

Arrangements(n) ==
    {p \in [1..n -> 1..n] : \A i, j \in 1..n : i # j => p[i] # p[j]}

\* x may stand before y in a descending sort (NaN cells go last)
Precedes(x, y) == IsNaN(y) \/ Geq(x, y)

\* ascending instead of descending
SortValuesAscending(ts) ==
    { [i \in DOMAIN ts |-> ts[p[i]]] : p \in
        {q \in Arrangements(Len(ts)) : \A i \in 1..(Len(ts) - 1) :
            Precedes(ts[q[i + 1]].power_index, ts[q[i]].power_index)} }

\* sort_values("power_index", ascending=False) with the default sort kind,
\* which is not stable: every descending arrangement of the rows
SortValues(ts) ==
    { [i \in DOMAIN ts |-> ts[p[i]]] : p \in
        {q \in Arrangements(Len(ts)) : \A i \in 1..(Len(ts) - 1) :
            Precedes(ts[q[i]].power_index, ts[q[i + 1]].power_index)} }

-----------------------------------------------------------------------------
(* Helper functions of the script                                          *)

\* team_bar_chart: the figure is handed to the renderer and is not state;
\* team_df.iloc[0] raises IndexError when no group exists
team_bar_chart(rows, metric) ==
    IF GroupKeys(rows) = << >> THEN "IndexError" ELSE "none"

\* the tier bounds taken as exclusive
pressure_adjustment_exclusive(strength, overs) ==
    IF overs < 5 THEN Mul(strength, <<23, 20>>)
    ELSE IF overs < 10 THEN Mul(strength, <<21, 20>>)
    ELSE strength

\* the pressure bonus added to the strength instead of scaling it
pressure_adjustment_additive(strength, overs) ==
    IF overs <= 5 THEN Add(strength, <<3, 20>>)
    ELSE IF overs <= 10 THEN Add(strength, <<1, 20>>)
    ELSE strength

pressure_adjustment(strength, overs) ==
    IF overs <= 5 THEN Mul(strength, <<23, 20>>)
    ELSE IF overs <= 10 THEN Mul(strength, <<21, 20>>)
    ELSE strength

\* lines 267-274 given the two identifiers and the slider value: the
\* lookup .values[0] raises IndexError when no row of the aggregate matches
SimulationModel(ts, t1, t2, overs) ==
    LET rows1 == SelectSeq(ts, LAMBDA r : r.country = t1)
        rows2 == SelectSeq(ts, LAMBDA r : r.country = t2)
    IN IF rows1 = << >> \/ rows2 = << >>
       THEN [error |-> "IndexError",
             s1 |-> IF rows1 = << >> THEN None ELSE rows1[1].power_index,
             s2 |-> None, adj1 |-> None, adj2 |-> None,
             prob1 |-> None, prob2 |-> None]
       ELSE LET a1 == pressure_adjustment(rows1[1].power_index, overs)
                a2 == pressure_adjustment(rows2[1].power_index, overs)
                p1 == Div(a1, Add(a1, a2))
            IN [error |-> "none",
                s1 |-> rows1[1].power_index, s2 |-> rows2[1].power_index,
                adj1 |-> a1, adj2 |-> a2,
                prob1 |-> p1, prob2 |-> Sub(One, p1)]

\* st.selectbox returns one of its options, or None when it has none
SelectBox(options) == IF options = << >> THEN {None} ELSE Range(options)

Overs == 1..20

-----------------------------------------------------------------------------
(* The run                                                                 *)

Init ==
    /\ df \in Tables
    /\ teams = << >>
    /\ filtered_df = << >>
    /\ team_strength = << >>
    /\ best_team = NoRow
    /\ ar_df = << >>
    /\ team1 = None /\ team2 = None /\ overs_left = 0
    /\ s1 = None /\ s2 = None /\ adj1 = None /\ adj2 = None
    /\ prob1 = None /\ prob2 = None
    /\ verdict = None
    /\ warnings = << >>
    /\ pc = "sidebar"
    /\ error = "none"

simVars == <<team1, team2, overs_left, s1, s2, adj1, adj2, prob1, prob2>>

\* lines 46-50: the multiselect over the distinct countries of the table
Sidebar ==
    /\ pc = "sidebar"
    /\ teams' \in SubLists(Unique(Column(df, "country")))
    /\ pc' = "filter"
    /\ UNCHANGED <<df, filtered_df, team_strength, best_team, ar_df, simVars,
                   verdict, warnings, error>>

\* line 52
Filter ==
    /\ pc = "filter"
    /\ filtered_df' = SelectSeq(df, LAMBDA r : r.country \in Range(teams))
    /\ pc' = "metrics"
    /\ UNCHANGED <<df, teams, team_strength, best_team, ar_df, simVars,
                   verdict, warnings, error>>

\* lines 55-60
Metrics ==
    /\ pc = "metrics"
    /\ filtered_df' = [i \in DOMAIN filtered_df |-> FeatureEngineering(filtered_df[i])]
    /\ pc' = "overview"
    /\ UNCHANGED <<df, teams, team_strength, best_team, ar_df, simVars,
                   verdict, warnings, error>>

\* lines 142-176
Overview ==
    /\ pc = "overview"
    /\ IF ~RoleIsText(df)
       THEN /\ team_strength' = BaseStrength(filtered_df)
            /\ error' = "AttributeError"
            /\ pc' = "crashed"
            /\ UNCHANGED best_team
       ELSE /\ team_strength' = TeamStrength(filtered_df)
            /\ IF team_strength' = << >>
               THEN /\ error' = "IndexError"
                    /\ pc' = "crashed"
                    /\ UNCHANGED best_team
               ELSE /\ \E sorted \in SortValues(team_strength') :
                         best_team' = sorted[1]
                    /\ pc' = "batting"
                    /\ UNCHANGED error
    /\ UNCHANGED <<df, teams, filtered_df, ar_df, simVars, verdict, warnings>>

\* a tab that only draws team_bar_chart(filtered_df, metric)
ChartTab(here, metric, next) ==
    /\ pc = here
    /\ LET raised == team_bar_chart(filtered_df, metric)
       IN /\ error' = raised
          /\ pc' = IF raised = "none" THEN next ELSE "crashed"
    /\ UNCHANGED <<df, teams, filtered_df, team_strength, best_team, ar_df,
                   simVars, verdict, warnings>>

\* lines 179-188
Batting == ChartTab("batting", "batting_impact", "bowling")

\* lines 191-200
Bowling == ChartTab("bowling", "bowling_impact", "allrounders")

\* lines 203-255
AllRounders ==
    /\ pc = "allrounders"
    /\ ar_df' = SelectSeq(filtered_df, IsAllRounder)
    /\ warnings' = IF ar_df' = << >>
                   THEN Append(warnings, "No all-rounders available for selected teams.")
                   ELSE warnings
    /\ LET raised == team_bar_chart(ar_df', "allrounder_index")
       IN /\ error' = raised
          /\ pc' = IF raised = "none" THEN "simulation" ELSE "crashed"
    /\ UNCHANGED <<df, teams, filtered_df, team_strength, best_team, simVars,
                   verdict>>

\* the assignments of lines 262-274 for chosen widget values
Simulate(t1, t2, overs) ==
    LET r == SimulationModel(team_strength, t1, t2, overs)
    IN /\ team1' = t1 /\ team2' = t2 /\ overs_left' = overs
       /\ s1' = r.s1 /\ s2' = r.s2
       /\ adj1' = r.adj1 /\ adj2' = r.adj2
       /\ prob1' = r.prob1 /\ prob2' = r.prob2
       /\ error' = r.error
       /\ pc' = IF r.error = "none" THEN "verdict" ELSE "crashed"
       /\ UNCHANGED <<df, teams, filtered_df, team_strength, best_team, ar_df,
                      verdict, warnings>>

\* lines 258-277: team 2 is chosen among the selected teams other than team 1
Simulation ==
    /\ pc = "simulation"
    /\ \E t1 \in SelectBox(teams) :
         \E t2 \in SelectBox(SelectSeq(teams, LAMBDA t : t # t1)) :
           \E overs \in Overs : Simulate(t1, t2, overs)

\* lines 279-285
FinalVerdict ==
    /\ pc = "verdict"
    /\ verdict' = best_team.country
    /\ pc' = "done"
    /\ UNCHANGED <<df, teams, filtered_df, team_strength, best_team, ar_df,
                   simVars, warnings, error>>

Next ==
    \/ Sidebar
    \/ Filter
    \/ Metrics
    \/ Overview
    \/ Batting
    \/ Bowling
    \/ AllRounders
    \/ Simulation
    \/ FinalVerdict

Spec == Init /\ [][Next]_vars

\* the simulation code handed any two of the selected identifiers by its
\* caller, without the exclusion the second selectbox applies
DirectSimulation ==
    /\ pc = "simulation"
    /\ \E t1 \in SelectBox(teams) :
         \E t2 \in SelectBox(teams) :
           \E overs \in Overs : Simulate(t1, t2, overs)

ModelNext ==
    \/ Sidebar
    \/ Filter
    \/ Metrics
    \/ Overview
    \/ Batting
    \/ Bowling
    \/ AllRounders
    \/ DirectSimulation
    \/ FinalVerdict

ModelSpec == Init /\ [][ModelNext]_vars

-----------------------------------------------------------------------------
(* Properties                                                              *)

Simulated == pc \in {"verdict", "done"}

Aggregated == pc \in {"batting", "bowling", "allrounders", "simulation",
                      "verdict", "done"}
              \/ (pc = "crashed" /\ error = "IndexError")

NonNegative(x) == Geq(x, Zero)
Positive(x) == Geq(x, Zero) /\ x # Zero
InUnitInterval(x) == Geq(x, Zero) /\ Geq(One, x)

AggregateCountries == {team_strength[i].country : i \in DOMAIN team_strength}

\* C1: for distinct selected teams and overs_left in 1..20, when both
\* adjusted strengths are non-negative and not both zero, the two win
\* probabilities lie in [0, 1] and sum to 1, and the probability of A
\* against B plus that of B against A is 1.
C1_ProbabilitiesSumToOne ==
    (Simulated /\ NonNegative(adj1) /\ NonNegative(adj2)
       /\ ~(adj1 = Zero /\ adj2 = Zero))
    => /\ InUnitInterval(prob1)
       /\ InUnitInterval(prob2)
       /\ Add(prob1, prob2) = One
       /\ Add(prob1,
              SimulationModel(team_strength, team2, team1, overs_left).prob1) = One

\* the multiplier the specification gives for a slider value
TierOf(overs) ==
    CASE overs \in 1..5 -> <<115, 100>>
      [] overs \in 6..10 -> <<105, 100>>
      [] overs \in 11..20 -> <<100, 100>>

Scaled(x, m) == Div(Mul(x, Num(m[1])), Num(m[2]))

\* C2: pressure_adjustment multiplies the strength by 1.15 for overs_left
\* <= 5, by 1.05 for 5 < overs_left <= 10 and by 1 above 10 (so 5 -> 1.15,
\* 6 and 10 -> 1.05, 11 -> 1), and for a non-negative strength the result
\* never decreases as overs_left decreases.
C2_PressureTiers ==
    Simulated =>
      /\ adj1 = Scaled(s1, TierOf(overs_left))
      /\ adj2 = Scaled(s2, TierOf(overs_left))
      /\ \A s \in {s1, s2} :
           /\ pressure_adjustment(s, 5) = Scaled(s, <<115, 100>>)
           /\ pressure_adjustment(s, 6) = Scaled(s, <<105, 100>>)
           /\ pressure_adjustment(s, 10) = Scaled(s, <<105, 100>>)
           /\ pressure_adjustment(s, 11) = s
           /\ (NonNegative(s) /\ overs_left > 1) =>
                Geq(pressure_adjustment(s, overs_left - 1),
                    pressure_adjustment(s, overs_left))

C2_Witness ==
    /\ pc = "done"
    /\ overs_left = 5
    /\ IsFinite(s1) /\ Positive(s1)
    /\ adj1 # s1
    /\ adj1 # pressure_adjustment(s1, 6)

\* C3: with an empty team selection the filter and the aggregation (means,
\* all-rounder merge, power_index, best team) finish without an error and
\* the aggregate table is empty.
C3_EmptySelectionNoError ==
    (pc # "sidebar" /\ teams = << >>)
    => /\ error = "none"
       /\ team_strength = << >>

\* C4: a non-empty filtered set without any all-rounder row never raises:
\* the empty all-rounder subset passes through every computation on it,
\* the team_bar_chart ranking included.
C4_NoAllRounderNoError ==
    (pc \notin {"sidebar", "filter", "metrics"} /\ filtered_df # << >>
       /\ \A i \in DOMAIN filtered_df : ~IsAllRounder(filtered_df[i]))
    => error = "none"

\* C5: a simulation side whose identifier is not in the aggregate (as when
\* one team is selected and the second side has no team) is reported as
\* UnknownTeamError and does not crash the run.
C5_UnknownTeamReported ==
    (team1 # None /\ (team1 \notin AggregateCountries
                        \/ team2 \notin AggregateCountries))
    => /\ error = "UnknownTeamError"
       /\ pc # "crashed"

C7_ZeroEconomyExcluded ==
    (Aggregated /\ \E i \in DOMAIN filtered_df : filtered_df[i].economy = 0)
    => /\ \A i \in DOMAIN team_strength :
            /\ IsFinite(team_strength[i].bowling_impact)
            /\ IsFinite(team_strength[i].allrounder_index)
            /\ IsFinite(team_strength[i].power_index)
       /\ warnings # << >>
       /\ team_strength # << >>

HasAllRounder(c) ==
    \E i \in DOMAIN filtered_df :
        filtered_df[i].country = c /\ IsAllRounder(filtered_df[i])

\* C8: in every aggregate, a team with rows but no all-rounder row has
\* allrounder_index exactly 0, never missing, and its power_index is
\* 0.5 * batting_impact + 0.3 * bowling_impact.
C8_NoAllRounderIndexZero ==
    Aggregated =>
      \A i \in DOMAIN team_strength :
        LET t == team_strength[i]
        IN ~HasAllRounder(t.country)
           => /\ t.allrounder_index = Zero
              /\ t.power_index = Add(Mul(<<1, 2>>, t.batting_impact),
                                      Mul(<<3, 10>>, t.bowling_impact))

C8_Witness ==
    /\ Aggregated
    /\ \E i, j \in DOMAIN team_strength :
         /\ ~HasAllRounder(team_strength[i].country)
         /\ Positive(team_strength[i].power_index)
         /\ HasAllRounder(team_strength[j].country)
         /\ team_strength[j].allrounder_index # Zero

IsMaximal(row) ==
    \A i \in DOMAIN team_strength :
        Geq(row.power_index, team_strength[i].power_index)

FirstMaximal ==
    LET i == CHOOSE k \in DOMAIN team_strength :
                 /\ IsMaximal(team_strength[k])
                 /\ \A j \in 1..(k - 1) : ~IsMaximal(team_strength[j])
    IN team_strength[i]

C10_RatioPreserved ==
    (Simulated /\ Positive(s1) /\ Positive(s2))
    => /\ prob1 = Div(s1, Add(s1, s2))
       /\ prob1 = SimulationModel(team_strength, team1, team2,
                                  (overs_left % 20) + 1).prob1

C10_Witness ==
    /\ pc = "done"
    /\ overs_left <= 5
    /\ IsFinite(s1) /\ IsFinite(s2)
    /\ Positive(s1) /\ Positive(s2)
    /\ s1 # s2
    /\ adj1 # s1

====
